---- MODULE Spec2Model ----
(***************************************************************************)
(* Model of vllm/tool_parsers/trinity_tool_parser.py (TrinityToolParser).  *)
(*                                                                         *)
(* A text is a sequence of lexical units.  The units are chosen so that a  *)
(* literal of the parser ("<tool_call>", "</tool_call>", "<think>",        *)
(* "</think>") occurs in the concatenated characters exactly where its     *)
(* units occur consecutively: "<" is a unit of its own and no other unit   *)
(* contains it, so str.find / str.replace / the regular expression on the  *)
(* characters agree with the same operations on the units.                 *)
(***************************************************************************)
EXTENDS Integers, Sequences, FiniteSets, TLC

(***************************************************************************)
(* Lexical units                                                           *)
(***************************************************************************)
LT == "<"
TC == "tool_call>"
ETC == "/tool_call>"
TH == "think>"
ETH == "/think>"
NL == "\n"
SP == " "
TXT == "x"

\* JSON payload texts (each one unit; PH1 PH2 is one payload cut at a comma)
PF == "{\"name\": \"f\", \"arguments\": {\"a\": 1, \"b\": 2}}"
PF2 == "{\"arguments\":{\"b\":2,\"a\":1},\"name\":\"f\"}"
PG == "{\"name\": \"g\"}"
PA == "{\"arguments\": {\"a\": 1}}"
PH1 == "{\"name\": \"h\","
PH2 == "\"arguments\": {}}"
PQ1 == "{\"name\": \"q\", \"arguments\": {\"s\": \""
PQ2 == "\"}}"
PNUM == "1"
PBAD == "{\"name\": "

tool_call_start_token == <<LT, TC>>
tool_call_end_token == <<LT, ETC>>
think_start == <<LT, TH>>
think_end == <<LT, ETH>>

IsSpace(u) == u \in {NL, SP}

(***************************************************************************)
(* Python string primitives on texts (0-based indices, as in the source)   *)
(***************************************************************************)
\* text[i:j] for 0 <= i, j
Slice(text, i, j) == SubSeq(text, i + 1, IF j > Len(text) THEN Len(text) ELSE j)

\* does pat occur in text at 0-based index i
MatchAt(text, pat, i) ==
    /\ i >= 0
    /\ i + Len(pat) <= Len(text)
    /\ \A k \in 1..Len(pat) : text[i + k] = pat[k]

\* str.find(pat, from): the lowest index >= from where pat occurs, else -1
Find(text, pat, from) ==
    LET hits == {i \in from..(Len(text) - Len(pat)) : MatchAt(text, pat, i)}
    IN  IF hits = {} THEN -1 ELSE CHOOSE i \in hits : \A j \in hits : i <= j

\* pat in text
Contains(text, pat) == Find(text, pat, 0) # -1

\* The 1-based positions of text that str.replace(pat, "") keeps: one scan
\* from the left, an occurrence is skipped whole and the scan goes on after it.
RECURSIVE KeepFrom(_, _, _)
KeepFrom(text, pat, i) ==
    IF i >= Len(text) THEN <<>>
    ELSE IF MatchAt(text, pat, i) THEN KeepFrom(text, pat, i + Len(pat))
    ELSE <<i + 1>> \o KeepFrom(text, pat, i + 1)

Pick(text, idx) == [k \in 1..Len(idx) |-> text[idx[k]]]

\* str.replace(pat, "")
Remove(text, pat) == Pick(text, KeepFrom(text, pat, 0))

\* str.rstrip("\n")
RECURSIVE RStripNL(_)
RStripNL(text) ==
    IF text # <<>> /\ text[Len(text)] = NL
    THEN RStripNL(SubSeq(text, 1, Len(text) - 1))
    ELSE text

(***************************************************************************)
(* _strip_think_tags                                                       *)
(***************************************************************************)
\* the positions of text that survive both replace passes
StripKeep(text) ==
    LET k1 == KeepFrom(text, think_start, 0)
        k2 == KeepFrom(Pick(text, k1), think_end, 0)
    IN  Pick(k1, k2)

\* (mutant) the closing delimiter is forgotten
_strip_think_tags_open(text) == Remove(text, think_start)

_strip_think_tags(text) == Remove(Remove(text, think_start), think_end)

(***************************************************************************)
(* JSON: json.loads on a payload text and json.dumps on the arguments      *)
(***************************************************************************)
\* An optional value: <<>> is absent (Python None / missing key), <<v>> is v.
None == <<>>
Some(v) == <<v>>

\* A parsed object keeps its keys in source order, as a Python dict does.
\* "arguments" objects are sequences of <<key, value text>> pairs.
ParseError == [ok |-> FALSE, is_dict |-> FALSE, name |-> None, arguments |-> None]
ParsedDict(n, a) == [ok |-> TRUE, is_dict |-> TRUE, name |-> n, arguments |-> a]
ParsedScalar == [ok |-> TRUE, is_dict |-> FALSE, name |-> None, arguments |-> None]

\* text.strip() for the JSON whitespace units
RECURSIVE TrimSpace(_)
TrimSpace(text) ==
    IF text # <<>> /\ IsSpace(text[1]) THEN TrimSpace(Tail(text))
    ELSE IF text # <<>> /\ IsSpace(text[Len(text)])
    THEN TrimSpace(SubSeq(text, 1, Len(text) - 1))
    ELSE text

\* json.loads: whitespace around the document and between its lexical
\* elements is skipped; anything that is not one JSON document raises
\* (ok = FALSE).  PQ1 "<" "/tool_call>" PQ2 is one object whose string value
\* is the end-marker literal.
json_loads(text) ==
    LET doc == TrimSpace(text)
        n == Len(doc)
    IN  CASE doc = <<PF>> -> ParsedDict(Some("f"), Some(<< <<"a", "1">>, <<"b", "2">> >>))
          [] doc = <<PF2>> -> ParsedDict(Some("f"), Some(<< <<"b", "2">>, <<"a", "1">> >>))
          [] doc = <<PG>> -> ParsedDict(Some("g"), None)
          [] doc = <<PA>> -> ParsedDict(None, Some(<< <<"a", "1">> >>))
          [] /\ n >= 2
             /\ doc[1] = PH1
             /\ doc[n] = PH2
             /\ \A k \in 2..(n - 1) : IsSpace(doc[k]) -> ParsedDict(Some("h"), Some(<<>>))
          [] doc = <<PQ1, LT, ETC, PQ2>> ->
                 ParsedDict(Some("q"), Some(<< <<"s", "\"</tool_call>\"">> >>))
          [] doc = <<PNUM>> -> ParsedScalar
          [] OTHER -> ParseError

\* the arguments objects of the documents above
ArgumentObjects ==
    { << <<"a", "1">>, <<"b", "2">> >>, << <<"b", "2">>, <<"a", "1">> >>,
      << <<"a", "1">> >>, << <<"s", "\"</tool_call>\"">> >>, <<>> }

\* dict.get(key, default)
Get(opt, default) == IF opt = None THEN default ELSE opt[1]

\* json.dumps(obj, ensure_ascii=False) of an arguments object: the default
\* separators ", " and ": ", keys in the dict's own order.
RECURSIVE DumpItems(_)
DumpItems(pairs) ==
    IF pairs = <<>> THEN ""
    ELSE LET item == "\"" \o pairs[1][1] \o "\": " \o pairs[1][2]
         IN  IF Len(pairs) = 1 THEN item
             ELSE item \o ", " \o DumpItems(Tail(pairs))

json_dumps(pairs) == "{" \o DumpItems(pairs) \o "}"

\* json.loads of an arguments text that json.dumps produced
json_loads_arguments(s) == CHOOSE a \in ArgumentObjects : json_dumps(a) = s

(***************************************************************************)
(* tool_call_regex: <tool_call>\s*(?P<json>.*?)\s*</tool_call>, DOTALL     *)
(***************************************************************************)
\* number of whitespace units of text from 0-based index i on
RECURSIVE SpaceRun(_, _)
SpaceRun(text, i) ==
    IF i < Len(text) /\ IsSpace(text[i + 1]) THEN 1 + SpaceRun(text, i + 1) ELSE 0

\* number of whitespace units of text that end right before 0-based index i,
\* not reaching below index lo
RECURSIVE SpaceRunBack(_, _, _)
SpaceRunBack(text, i, lo) ==
    IF i > lo /\ IsSpace(text[i]) THEN 1 + SpaceRunBack(text, i - 1, lo) ELSE 0

\* The non-overlapping matches from 0-based index pos on, left to right: the
\* leading \s* is greedy, the json group is lazy, so a match runs from a
\* start marker to the first end marker after it and the group excludes the
\* whitespace on both sides.
RECURSIVE tool_call_regex_matches(_, _)
tool_call_regex_matches(text, pos) ==
    LET s == Find(text, tool_call_start_token, pos)
        base == s + Len(tool_call_start_token)
                  + SpaceRun(text, s + Len(tool_call_start_token))
        e == Find(text, tool_call_end_token, base)
        p == e - SpaceRunBack(text, e, base)
    IN  IF s = -1 \/ e = -1 THEN <<>>
        ELSE <<[from |-> s, json |-> Slice(text, base, p),
                to |-> e + Len(tool_call_end_token)]>>
             \o tool_call_regex_matches(text, e + Len(tool_call_end_token))

\* (mutant) the json group is greedy: one match, up to the last end marker
tool_call_regex_findall_greedy(text) ==
    LET s == Find(text, tool_call_start_token, 0)
        base == s + Len(tool_call_start_token)
                  + SpaceRun(text, s + Len(tool_call_start_token))
        ends == {i \in base..Len(text) : MatchAt(text, tool_call_end_token, i)}
        e == CHOOSE i \in ends : \A j \in ends : j <= i
    IN  IF s = -1 \/ ends = {} THEN <<>>
        ELSE <<Slice(text, base, e - SpaceRunBack(text, e, base))>>

\* tool_call_regex.findall(text): the json groups
tool_call_regex_findall(text) ==
    LET ms == tool_call_regex_matches(text, 0)
    IN  [k \in 1..Len(ms) |-> ms[k].json]

(***************************************************************************)
(* extract_tool_calls                                                      *)
(***************************************************************************)
\* ToolCall(type="function", function=FunctionCall(name, arguments))
ToolCallOf(json) ==
    LET d == json_loads(json)
    IN  [name |-> Get(d.name, ""), arguments |-> json_dumps(Get(d.arguments, <<>>))]

\* the loop body raises: json.loads fails, or the value has no .get
Raises(json) == LET d == json_loads(json) IN ~d.ok \/ ~d.is_dict

ExtractedToolCallInformation(called, calls, content) ==
    [tools_called |-> called, tool_calls |-> calls, content |-> content]

\* (mutant) the try/except sits inside the loop: a block that raises is
\* skipped and the others are reported
extract_tool_calls_partial(model_output) ==
    LET stripped_output == _strip_think_tags(model_output)
        tool_call_json_list ==
            SelectSeq(tool_call_regex_findall(stripped_output), LAMBDA j : ~Raises(j))
        content == RStripNL(Slice(stripped_output, 0,
                       Find(stripped_output, tool_call_start_token, 0)))
    IN  IF ~Contains(stripped_output, tool_call_start_token)
        THEN ExtractedToolCallInformation(FALSE, <<>>, Some(stripped_output))
        ELSE ExtractedToolCallInformation(TRUE,
                 [k \in 1..Len(tool_call_json_list) |-> ToolCallOf(tool_call_json_list[k])],
                 IF content # <<>> THEN Some(content) ELSE None)

extract_tool_calls(model_output) ==
    LET stripped_output == _strip_think_tags(model_output)
        tool_call_json_list == tool_call_regex_findall(stripped_output)
        content == RStripNL(Slice(stripped_output, 0,
                       Find(stripped_output, tool_call_start_token, 0)))
    IN  IF ~Contains(stripped_output, tool_call_start_token)
        THEN ExtractedToolCallInformation(FALSE, <<>>, Some(stripped_output))
        ELSE IF \E k \in 1..Len(tool_call_json_list) : Raises(tool_call_json_list[k])
        THEN ExtractedToolCallInformation(FALSE, <<>>, Some(stripped_output))
        ELSE ExtractedToolCallInformation(TRUE,
                 [k \in 1..Len(tool_call_json_list) |-> ToolCallOf(tool_call_json_list[k])],
                 IF content # <<>> THEN Some(content) ELSE None)

(***************************************************************************)
(* Inputs                                                                  *)
(***************************************************************************)
MaxPieces == 4
MaxFragPieces == 3
MaxExtractPieces == 4

Block(payload) == tool_call_start_token \o payload \o tool_call_end_token

\* What a fragment of a stream is made of: a whole block, the two markers,
\* the halves of a start marker, the tail of a narration delimiter, a payload,
\* narration and a newline.
StreamPieces ==
    { Block(<<PF>>), tool_call_start_token, tool_call_end_token,
      <<LT>>, <<TC>>, <<TH>>, <<PG>>, <<TXT>>, <<NL>> }

\* What a complete model output is made of.  A block piece carries the name
\* and the arguments text its JSON denotes; end_literal says that the JSON
\* holds the end-marker literal inside a string.  A malformed piece is a block
\* whose payload is cut short or is not an object.
BlockPiece(text, name, arguments, end_literal) ==
    [kind |-> "block", text |-> text, name |-> name, arguments |-> arguments,
     end_literal |-> end_literal]
OtherPiece(kind, text) ==
    [kind |-> kind, text |-> text, name |-> "", arguments |-> "", end_literal |-> FALSE]

ExtractPieces ==
    { BlockPiece(Block(<<PF>>), "f", "{\"a\": 1, \"b\": 2}", FALSE),
      BlockPiece(Block(<<NL, PG, NL>>), "g", "{}", FALSE),
      BlockPiece(Block(<<PQ1, LT, ETC, PQ2>>), "q", "{\"s\": \"</tool_call>\"}", TRUE),
      BlockPiece(Block(<<PF2>>), "f", "{\"b\": 2, \"a\": 1}", FALSE),
      OtherPiece("malformed", Block(<<PBAD>>)),
      OtherPiece("malformed", Block(<<PNUM>>)),
      OtherPiece("space", <<NL>>),
      OtherPiece("text", <<LT>>), OtherPiece("text", <<TC>>),
      OtherPiece("text", <<TH>>), OtherPiece("text", <<ETH>>) }

\* the texts made of exactly n pieces
RECURSIVE Concats(_, _)
Concats(pieces, n) ==
    IF n = 0 THEN {<<>>}
    ELSE {t \o q : t \in Concats(pieces, n - 1), q \in pieces}

(***************************************************************************)
(* State                                                                   *)
(***************************************************************************)
VARIABLES
    _buffer,                 \* self._buffer
    current_tool_id,         \* self.current_tool_id
    prev_tool_call_arr,      \* self.prev_tool_call_arr
    streamed_args_for_tool,  \* self.streamed_args_for_tool
    ret,                     \* what the last extract_tool_calls_streaming call returned
    raw_text,                \* the delta_text values given so far, concatenated
    received,                \* the stripped delta_text values, concatenated
    emitted,                 \* the tool-call fragments returned so far, in order
    content_pos,             \* positions of received returned as content
    consumed_pos,            \* positions of received removed by an emitting call
    trimmed_pos,             \* positions of received trimmed as trailing newlines
    suppressed_pos,          \* positions of received discarded after a call
    fail_mark,               \* Len(emitted) at the first zero-call block, else -1
    late_good,               \* a well-formed block arrived after that fragment
    deferred,                \* the last call found a block a call before it left
    stalled,                 \* with such a block owed, an empty fragment changed nothing
    n_pieces,                \* pieces given so far
    model_output,            \* the argument of the last extract_tool_calls call
    stripped_output,         \* its stripped_output
    extraction,              \* what it returned
    layout                   \* how model_output was put together

streamVars ==
    <<_buffer, current_tool_id, prev_tool_call_arr, streamed_args_for_tool, ret,
      raw_text, received, emitted, content_pos, consumed_pos, trimmed_pos,
      suppressed_pos, fail_mark, late_good, deferred, stalled, n_pieces>>
extractVars == <<model_output, stripped_output, extraction, layout>>
vars == <<streamVars, extractVars>>

(***************************************************************************)
(* extract_tool_calls_streaming                                            *)
(***************************************************************************)
\* DeltaMessage(content, tool_calls); a call may also return None
DeltaMessage(content, tool_calls) ==
    [is_none |-> FALSE, content |-> content, tool_calls |-> tool_calls]
NoDelta == [is_none |-> TRUE, content |-> None, tool_calls |-> <<>>]

\* while len(lst) <= id: lst.append(filler)
RECURSIVE Pad(_, _, _)
Pad(lst, id, filler) ==
    IF Len(lst) <= id THEN Pad(Append(lst, filler), id, filler) ELSE lst

\* (mutant) the buffer is forgotten
CurText_nobuf(buffer, delta) == delta

\* self._buffer += delta_text; cur_text = self._buffer
CurText(buffer, delta) == buffer \o delta

\* current_tool_id once a complete block is in the buffer
StartedId(id) == IF id = -1 THEN 0 ELSE id

\* the text handed to extract_tool_calls: the buffer through the end marker
CompletedText(cur_text, end_idx) ==
    Slice(cur_text, 0, end_idx + Len(tool_call_end_token))

\* (mutant) the buffer is not cut
Remainder_keep(cur_text, end_idx) == cur_text

\* the buffer kept after a call was emitted
Remainder(cur_text, end_idx) ==
    Slice(cur_text, end_idx + Len(tool_call_end_token), Len(cur_text))

\* (mutant) one unit too many is cut off
Pending_drop(cur_text, start_idx) == Slice(cur_text, start_idx + 1, Len(cur_text))

\* (mutant) the buffer is not cut at the start marker
Pending_all(cur_text, start_idx) == cur_text

\* the buffer kept while the end marker is missing
Pending(cur_text, start_idx) == Slice(cur_text, start_idx, Len(cur_text))

\* (mutant) the name and the arguments go out as two fragments
DeltaToolCalls_split(tool_calls, id) ==
    <<[index |-> id, name |-> tool_calls[1].name, arguments |-> ""],
      [index |-> id, name |-> "", arguments |-> tool_calls[1].arguments]>>

\* tool_calls of the DeltaMessage of a completed block
DeltaToolCalls(tool_calls, id) ==
    <<[index |-> id, name |-> tool_calls[1].name,
       arguments |-> tool_calls[1].arguments]>>

\* (mutant) the increment is forgotten
NextToolId_stuck(id) == id

\* self.current_tool_id += 1
NextToolId(id) == id + 1

\* (mutant) the suppression after a call is forgotten
MarkerFreeContent_all(cur_text, id) == cur_text

\* the content of the no-start-marker branch
MarkerFreeContent(cur_text, id) == IF id > 0 THEN <<>> ELSE cur_text

\* (mutant) the content is trimmed as the narration before a start marker is
ContentOrNone_trimmed(content) ==
    IF RStripNL(content) # <<>> THEN Some(RStripNL(content)) ELSE None

\* content if content else None
ContentOrNone(content) == IF content # <<>> THEN Some(content) ELSE None

\* positions lo+1 .. lo+n of received
Span(lo, n) == (lo + 1)..(lo + n)

\* the first <tool_call>...</tool_call> span of text is a well-formed block
\* and no narration delimiter lies in text up to its end marker
FirstBlockGood(text) ==
    LET ms == tool_call_regex_matches(text, 0)
    IN  /\ ms # <<>>
        /\ ~Raises(ms[1].json)
        /\ _strip_think_tags(Slice(text, 0, ms[1].to)) = Slice(text, 0, ms[1].to)

\* the call of the first block of text
FirstCall(text) == ToolCallOf(tool_call_regex_matches(text, 0)[1].json)

\* a well-formed complete block lies in text: some start marker of it and
\* the first end marker after it enclose a payload that yields a call
HasGoodBlock(text) ==
    \E s \in 0..Len(text) :
        /\ MatchAt(text, tool_call_start_token, s)
        /\ LET ms == tool_call_regex_matches(text, s)
           IN  ms # <<>> /\ ~Raises(ms[1].json)

extract_tool_calls_streaming(delta_text) ==
    \E delta \in {_strip_think_tags(delta_text)} :
    \E cur_text \in {CurText(_buffer, delta)} :
    \E start_idx \in {Find(cur_text, tool_call_start_token, 0)} :
    LET base == Len(received) - Len(_buffer)
        id == StartedId(current_tool_id)
        arr == Pad(IF current_tool_id = -1 THEN <<>> ELSE prev_tool_call_arr, id, None)
        args == Pad(IF current_tool_id = -1 THEN <<>> ELSE streamed_args_for_tool, id, "")
    IN  /\ raw_text' = raw_text \o delta_text
        /\ received' = received \o delta
        /\ deferred' = (ret.tool_calls # <<>> /\ FirstBlockGood(_buffer))
        /\ late_good' = (late_good \/ (fail_mark # -1 /\ HasGoodBlock(delta)))
        /\ UNCHANGED extractVars
        /\ IF start_idx = -1
           THEN \* no start marker: the buffer is returned or discarded
                \E content \in {MarkerFreeContent(cur_text, current_tool_id)} :
                /\ _buffer' = <<>>
                /\ ret' = DeltaMessage(ContentOrNone(content), <<>>)
                /\ content_pos' = content_pos \cup Span(base, Len(content))
                /\ suppressed_pos' = suppressed_pos \cup
                       (Span(base, Len(cur_text)) \ Span(base, Len(content)))
                /\ UNCHANGED <<current_tool_id, prev_tool_call_arr,
                               streamed_args_for_tool, emitted, consumed_pos,
                               trimmed_pos, fail_mark>>
           ELSE
           \E end_idx \in {Find(cur_text, tool_call_end_token, start_idx)} :
           IF end_idx # -1
           THEN \E completed \in {CompletedText(cur_text, end_idx)} :
                \E extracted_tool_calls \in {extract_tool_calls(completed)} :
                IF Len(extracted_tool_calls.tool_calls) = 0
                THEN \* the completed block yields no call
                     /\ _buffer' = cur_text
                     /\ current_tool_id' = id
                     /\ prev_tool_call_arr' = arr
                     /\ streamed_args_for_tool' = args
                     /\ ret' = NoDelta
                     /\ fail_mark' = IF fail_mark = -1 THEN Len(emitted) ELSE fail_mark
                     /\ UNCHANGED <<emitted, content_pos, consumed_pos, trimmed_pos,
                                    suppressed_pos>>
                ELSE \* one call is emitted and the buffer is cut after its end marker
                     \E tool_call \in {extracted_tool_calls.tool_calls[1]} :
                     \E tool_calls \in {DeltaToolCalls(extracted_tool_calls.tool_calls, id)} :
                     /\ _buffer' = Remainder(cur_text, end_idx)
                     /\ current_tool_id' = NextToolId(id)
                     /\ prev_tool_call_arr' =
                            [arr EXCEPT ![id + 1] =
                                Some([name |-> tool_call.name,
                                      arguments |-> json_loads_arguments(tool_call.arguments)])]
                     /\ streamed_args_for_tool' =
                            [args EXCEPT ![id + 1] = tool_call.arguments]
                     /\ ret' = DeltaMessage(extracted_tool_calls.content, tool_calls)
                     /\ emitted' = emitted \o tool_calls
                     /\ content_pos' = content_pos \cup
                            {base + StripKeep(completed)[k] :
                               k \in 1..Len(Get(extracted_tool_calls.content, <<>>))}
                     /\ consumed_pos' = consumed_pos \cup Span(base, Len(completed))
                     /\ UNCHANGED <<trimmed_pos, suppressed_pos, fail_mark>>
           ELSE \* a start marker without its end marker: wait
                \E content \in {RStripNL(Slice(cur_text, 0, start_idx))} :
                /\ _buffer' = Pending(cur_text, start_idx)
                /\ ret' = DeltaMessage(ContentOrNone(content), <<>>)
                /\ content_pos' = content_pos \cup Span(base, Len(content))
                /\ trimmed_pos' = trimmed_pos \cup
                       (Span(base, start_idx) \ Span(base, Len(content)))
                /\ UNCHANGED <<current_tool_id, prev_tool_call_arr,
                               streamed_args_for_tool, emitted, consumed_pos,
                               suppressed_pos, fail_mark>>
        /\ stalled' = (/\ late_good
                        /\ delta_text = <<>>
                        /\ ret'.tool_calls = <<>>
                        /\ _buffer' = _buffer
                        /\ current_tool_id' = current_tool_id
                        /\ prev_tool_call_arr' = prev_tool_call_arr
                        /\ streamed_args_for_tool' = streamed_args_for_tool)

\* One call of the serving loop: a fragment of up to MaxFragPieces pieces, the
\* empty fragment included.
Stream ==
    \E n \in 0..MaxFragPieces :
        /\ n_pieces + n <= MaxPieces
        /\ n_pieces' = n_pieces + n
        /\ \E delta_text \in Concats(StreamPieces, n) :
               extract_tool_calls_streaming(delta_text)

InitExtract ==
    /\ model_output = <<>>
    /\ stripped_output = <<>>
    /\ extraction = ExtractedToolCallInformation(FALSE, <<>>, Some(<<>>))
    /\ layout = <<>>

\* TrinityToolParser.__init__
InitStream ==
    /\ _buffer = <<>>
    /\ current_tool_id = -1
    /\ prev_tool_call_arr = <<>>
    /\ streamed_args_for_tool = <<>>
    /\ ret = NoDelta
    /\ raw_text = <<>>
    /\ received = <<>>
    /\ emitted = <<>>
    /\ content_pos = {}
    /\ consumed_pos = {}
    /\ trimmed_pos = {}
    /\ suppressed_pos = {}
    /\ fail_mark = -1
    /\ late_good = FALSE
    /\ deferred = FALSE
    /\ stalled = FALSE
    /\ n_pieces = 0

Init == InitStream /\ InitExtract

Next == Stream

Spec == Init /\ [][Next]_vars

\* One extract_tool_calls call, on a model output one piece longer than the
\* last one.
Extract ==
    \E p \in ExtractPieces :
        /\ Len(layout) < MaxExtractPieces
        /\ layout' = Append(layout, [kind |-> p.kind, name |-> p.name,
                                      arguments |-> p.arguments,
                                      end_literal |-> p.end_literal])
        /\ model_output' = model_output \o p.text
        /\ stripped_output' = _strip_think_tags(model_output \o p.text)
        /\ extraction' = extract_tool_calls(model_output \o p.text)
        /\ UNCHANGED streamVars

SpecExtract == Init /\ [][Extract]_vars


(***************************************************************************)
(* Properties of a streaming session                                       *)
(***************************************************************************)
CallsOf(frags) == [k \in 1..Len(frags) |-> [name |-> frags[k].name,
                                              arguments |-> frags[k].arguments]]

\* C1: the (name, arguments) sequence of the tool-call fragments emitted for
\* the fragments given so far equals the tool_calls that extract_tool_calls
\* returns for their concatenation.
C1_StreamingEqualsOneShot ==
    CallsOf(emitted) = extract_tool_calls(raw_text).tool_calls

\* C2: no position of the received text that lies in a well-formed
\* <tool_call>...</tool_call> block of it was returned as content.
C2_ContentExcludesBlocks ==
    LET ms == tool_call_regex_matches(received, 0)
    IN  \A k \in 1..Len(ms) :
            ~Raises(ms[k].json) => content_pos \cap ((ms[k].from + 1)..ms[k].to) = {}

\* C3: the k-th tool-call fragment emitted carries index k-1.
C3_IndicesSequential ==
    \A k \in 1..Len(emitted) : emitted[k].index = k - 1

C3_Witness ==
    /\ Len(emitted) = 2
    /\ emitted[1].name = "f"
    /\ emitted[2].name = "g"

\* C4: the number of tool-call fragments emitted never exceeds the number of
\* complete blocks of the text received so far.
C4_AtMostOncePerBlock ==
    Len(emitted) <= Len(tool_call_regex_matches(received, 0))

C4_Witness ==
    /\ Len(emitted) = 2
    /\ Len(tool_call_regex_matches(received, 0)) = 2
    /\ _buffer = <<>>

\* C5: once a completed block has yielded no call, the session does not get
\* stuck: while a well-formed complete block that arrived in a later fragment
\* has not been followed by an emission, a further call never leaves the
\* session exactly as it was.
C5_LaterBlocksEmitted ==
    (late_good /\ Len(emitted) <= fail_mark) => ~stalled

\* the positions of received that the buffer holds
BufferPos == (Len(received) - Len(_buffer) + 1)..Len(received)

C7_DeferredAnywhere ==
    [][(ret.tool_calls # <<>> /\ HasGoodBlock(_buffer))
         => (/\ Len(ret'.tool_calls) = 1
             /\ ret'.tool_calls[1].index = current_tool_id)]_vars

\* C7 as amended: when the last call emitted a tool call and the first block
\* of the buffer it left is complete and well-formed, with no narration
\* delimiter up to its end marker, the next call emits that block's call with
\* the next index, whatever its fragment is.
C7_DeferredFirst ==
    [][(ret.tool_calls # <<>> /\ FirstBlockGood(_buffer))
         => (ret'.tool_calls =
                <<[index |-> current_tool_id, name |-> FirstCall(_buffer).name,
                   arguments |-> FirstCall(_buffer).arguments]>>)]_vars

C7_Witness ==
    /\ deferred
    /\ Len(emitted) = 2
    /\ ret.tool_calls # <<>>
    /\ ret.tool_calls[1].index = 1

\* C8: every result carries at most one tool-call fragment.
C8_AtMostOneFragment == Len(ret.tool_calls) <= 1

C8_Witness ==
    /\ Len(ret.tool_calls) = 1
    /\ tool_call_regex_matches(_buffer, 0) # <<>>

\* the stripped fragment a step appended to the received text
Delta == SubSeq(received', Len(received) + 1, Len(received'))

\* C15: a call whose buffer, with the fragment appended, holds no start
\* marker finds current_tool_id > 0 exactly when a tool call has been emitted
\* (which is exactly when current_tool_id is not -1); and if one has, it
\* returns no content and no tool-call fragment and leaves the buffer empty.
C15_SuppressedAfterCall ==
    [][~Contains(_buffer \o Delta, tool_call_start_token)
         => (/\ (current_tool_id > 0) <=> (emitted # <<>>)
             /\ (current_tool_id > 0) <=> (current_tool_id # -1)
             /\ emitted # <<>> =>
                    (/\ ret' = [is_none |-> FALSE, content |-> None, tool_calls |-> <<>>]
                     /\ _buffer' = <<>>))]_vars

C15_Witness ==
    /\ Len(emitted) = 1
    /\ suppressed_pos # {}
    /\ _buffer = <<>>
    /\ ret = [is_none |-> FALSE, content |-> None, tool_calls |-> <<>>]

\* C16: while no tool call has been emitted and no buffer has held a start
\* marker, a call whose fragment brings none either returns that stripped
\* fragment, untrimmed, as content (None when it is empty), returns no
\* tool-call fragment and leaves the buffer empty; the content returned so
\* far is then the whole received text.
C16_ContentIsFragment ==
    [][(/\ emitted = <<>>
        /\ ~Contains(_buffer, tool_call_start_token)
        /\ ~Contains(_buffer \o Delta, tool_call_start_token))
         => (/\ ret' = [is_none |-> FALSE,
                        content |-> IF Delta # <<>> THEN Some(Delta) ELSE None,
                        tool_calls |-> <<>>]
             /\ _buffer' = <<>>
             /\ content_pos' = 1..Len(received'))]_vars

C16_Witness ==
    /\ emitted = <<>>
    /\ ret.content = Some(<<TXT, NL>>)
    /\ Len(received) = 4
    /\ content_pos = 1..Len(received)

\* C17: a call whose buffer, with the fragment appended, holds a start marker
\* and no end marker after it returns no tool-call fragment, returns the text
\* before the start marker without its trailing newlines as content (None
\* when that is empty) and leaves the buffer from the start marker on; if the
\* buffer was already waiting for its end marker, the content is None.
C17_WaitForEnd ==
    [][LET cur_text == _buffer \o Delta
           start_idx == Find(cur_text, tool_call_start_token, 0)
           before == RStripNL(Slice(cur_text, 0, start_idx))
       IN  (start_idx # -1 /\ Find(cur_text, tool_call_end_token, start_idx) = -1)
             => (/\ ret' = [is_none |-> FALSE,
                            content |-> IF before # <<>> THEN Some(before) ELSE None,
                            tool_calls |-> <<>>]
                 /\ MatchAt(_buffer', tool_call_start_token, 0)
                 /\ _buffer' = Slice(cur_text, start_idx, Len(cur_text))
                 /\ (/\ MatchAt(_buffer, tool_call_start_token, 0)
                     /\ Find(_buffer, tool_call_end_token, 0) = -1)
                        => ret'.content = None)]_vars

C17_Witness ==
    /\ _buffer = tool_call_start_token
    /\ received = <<TXT, NL>> \o tool_call_start_token
    /\ content_pos = {1}
    /\ trimmed_pos = {2}
    /\ ret = [is_none |-> FALSE, content |-> Some(<<TXT>>), tool_calls |-> <<>>]

\* C19: prev_tool_call_arr and streamed_args_for_tool have one entry per
\* emitted tool-call fragment, entry i holding the name and the arguments
\* text emitted with index i, and current_tool_id is -1 while nothing was
\* emitted and the number of emitted calls afterwards.
C19_Bookkeeping ==
    /\ Len(prev_tool_call_arr) = Len(emitted)
    /\ Len(streamed_args_for_tool) = Len(emitted)
    /\ \A k \in 1..Len(emitted) :
           /\ streamed_args_for_tool[k] = emitted[k].arguments
           /\ prev_tool_call_arr[k] # None
           /\ prev_tool_call_arr[k][1].name = emitted[k].name
    /\ current_tool_id = (IF emitted = <<>> THEN -1 ELSE Len(emitted))

(***************************************************************************)
(* Properties of _strip_think_tags and extract_tool_calls                  *)
(***************************************************************************)
\* C9: stripping is idempotent: stripping the stripped text changes nothing,
\* so the stripped text holds no <think> or </think> literal.
C9_StripIdempotent ==
    /\ _strip_think_tags(stripped_output) = stripped_output
    /\ ~Contains(stripped_output, think_start)
    /\ ~Contains(stripped_output, think_end)

\* the model output is N >= 1 blocks with only whitespace between them
OnlyBlocks ==
    /\ layout # <<>>
    /\ layout[1].kind = "block"
    /\ layout[Len(layout)].kind = "block"
    /\ \A k \in 1..Len(layout) : layout[k].kind \in {"block", "space"}

\* the calls the blocks of the layout denote, left to right
BlockCalls ==
    LET bs == SelectSeq(layout, LAMBDA p : p.kind = "block")
    IN  [k \in 1..Len(bs) |-> [name |-> bs[k].name, arguments |-> bs[k].arguments]]

\* C10 as claimed: a text of N >= 1 well-formed blocks with whitespace between
\* them gives tools_called and the N calls of the blocks, in order.
C10_EveryBlockText ==
    OnlyBlocks => (extraction.tools_called /\ extraction.tool_calls = BlockCalls)

\* C10 as amended: ... provided no block's JSON holds the end-marker literal.
C10_BlocksExtracted ==
    (OnlyBlocks /\ \A k \in 1..Len(layout) : ~layout[k].end_literal)
        => (extraction.tools_called /\ extraction.tool_calls = BlockCalls)

C10_Witness ==
    /\ OnlyBlocks
    /\ \E k \in 1..Len(layout) : layout[k].kind = "space"
    /\ Len(extraction.tool_calls) = 2
    /\ extraction.tool_calls[1].name = "g"
    /\ extraction.tool_calls[2].name = "f"

\* the text without its narration delimiters: every <think> removed in one
\* pass from the left, then every </think>
WithoutDelimiters(text) == Remove(Remove(text, think_start), think_end)

\* the result that reports no tool call and hands the text back as content
NoCallsResult(text) == [tools_called |-> FALSE, tool_calls |-> <<>>, content |-> Some(text)]

\* C11 as claimed: a model output that holds no start marker gives
\* tools_called = FALSE, no calls and the text without its narration
\* delimiters as content.
C11_NoStartInInput ==
    ~Contains(model_output, tool_call_start_token)
        => extraction = NoCallsResult(WithoutDelimiters(model_output))

\* C11 as amended: a model output whose text without narration delimiters
\* holds no start marker gives tools_called = FALSE, no calls and that text
\* as content.
C11_NoStartAfterStrip ==
    \A text \in {WithoutDelimiters(model_output)} :
        ~Contains(text, tool_call_start_token) => extraction = NoCallsResult(text)

C11_Witness ==
    /\ Contains(model_output, think_end)
    /\ Len(model_output) = 4
    /\ ~Contains(WithoutDelimiters(model_output), tool_call_start_token)
    /\ extraction = NoCallsResult(<<TC, TC>>)

\* C12: a model output that holds a block whose payload does not parse to an
\* object gives tools_called = FALSE, no calls at all and the whole stripped
\* text as content, also when other blocks of it are well-formed.
C12_AllOrNothing ==
    (\E k \in 1..Len(layout) : layout[k].kind = "malformed")
        => extraction = NoCallsResult(stripped_output)

C12_Witness ==
    /\ \E k \in 1..Len(layout) : layout[k].kind = "malformed"
    /\ \E k \in 1..Len(layout) : layout[k].kind = "block" /\ ~layout[k].end_literal
    /\ HasGoodBlock(stripped_output)
    /\ ~extraction.tools_called
    /\ extraction.tool_calls = <<>>

\* C13: the content of a result of extract_tool_calls is never the empty
\* text: it is absent or non-empty.
C13_ContentNeverEmpty ==
    layout # <<>> => extraction.content # Some(<<>>)

\* two arguments objects with the same keys and values
SameObject(a, b) == {a[k] : k \in DOMAIN a} = {b[k] : k \in DOMAIN b}

\* C14: two calls of one result whose payloads denote the same arguments
\* object, whatever the whitespace and the key order of the payloads, carry
\* the same arguments text.
C14_ArgumentsCanonical ==
    \A i, j \in 1..Len(extraction.tool_calls) :
        SameObject(json_loads_arguments(extraction.tool_calls[i].arguments),
                   json_loads_arguments(extraction.tool_calls[j].arguments))
            => extraction.tool_calls[i].arguments = extraction.tool_calls[j].arguments

\* C18: tools_called is TRUE exactly when the call list is non-empty.
C18_CalledIffCalls ==
    extraction.tools_called <=> (extraction.tool_calls # <<>>)

====
